---- MODULE Spec2Model ----
(***************************************************************************)
(* A model of logtools_vrb: LogUtils (handler clearing, record building    *)
(* and call-site discovery), ExcInfo (exception context and its tiered     *)
(* rendering), LevelAwareFormatter (per-level renderer dispatch) and       *)
(* MailLogHandler (mail subject, body and transport use).                  *)
(*                                                                         *)
(* Text is modelled as a sequence of string tokens: every literal piece    *)
(* and every interpolated value of the Python f-strings is one token, in   *)
(* the order the code emits them.                                          *)
(***************************************************************************)
EXTENDS Integers, Sequences, FiniteSets, TLC

VARIABLES
    handlers,   \* Logger.handlers of every logger: logger name -> list of handlers
    logOp,      \* the last LogUtils/Logger handler operation and the logger it used
    handled,    \* sys.exc_info(): the exception being handled, as a triple
    ei,         \* the ExcInfo object under test (its __dict__)
    excOp,      \* the last ExcInfo operation and its arguments
    excOut,     \* the text the last ExcInfo rendering returned
    laf,        \* the LevelAwareFormatter under test
    lafOp,      \* the last LevelAwareFormatter operation, and the one before it
    lafOut,     \* the text the last LevelAwareFormatter.format returned
    lafHist,    \* history of the formatter: how it was built, what was set since
    host,       \* the call-site discovery convention of the host's logging module
    stack,      \* the application's call stack, outermost frame first
    recOp,      \* the last make_log_record / find_caller call and its arguments
    recOut,     \* what that call returned
    mlh,        \* the MailLogHandler under test
    mailOp,     \* the last emit: its record, what it computed and how it ended
    transports, \* how many mail transports have been constructed so far
    outbox      \* the messages the transports have delivered, oldest first

loggerVars == <<handlers, logOp>>
excVars == <<ei, excOp, excOut>>
lafVars == <<laf, lafOp, lafOut, lafHist>>
recVars == <<host, stack, recOp, recOut>>
mailVars == <<mlh, mailOp, transports, outbox>>
vars == <<handlers, logOp, handled, ei, excOp, excOut, laf, lafOp, lafOut, lafHist,
          host, stack, recOp, recOut, mlh, mailOp, transports, outbox>>

(***************************************************************************)
(* Shared values                                                           *)
(***************************************************************************)

\* Python's None, for the slots that hold a record otherwise.
NoneVal == [kind |-> "None"]

\* The states of the component a specification does not exercise.
IdleOp == [op |-> "idle"]

(***************************************************************************)
(* Loggers and their handler lists (logging.Logger, LogUtils)              *)
(***************************************************************************)

\* How many distinct handler objects exist.
MaxHandlers == 3

Handlers == 1..MaxHandlers

\* logging.getLogger() is the root logger; "app" is a named logger.
LoggerNames == {"root", "app"}

\* list.remove(x): drop the first occurrence of x.
RECURSIVE ListRemove(_, _)
ListRemove(list, x) ==
    IF list = <<>> THEN <<>>
    ELSE IF Head(list) = x THEN Tail(list)
    ELSE <<Head(list)>> \o ListRemove(Tail(list), x)

SeqElems(list) == {list[i] : i \in 1..Len(list)}

\* Logger.addHandler: append unless already present.
addHandler(list, h) == IF h \in SeqElems(list) THEN list ELSE Append(list, h)

\* Logger.removeHandler: remove if present.
removeHandler(list, h) == IF h \in SeqElems(list) THEN ListRemove(list, h) ELSE list

\* "for h in logger.handlers: logger.removeHandler(h)": the list iterator
\* keeps an index into the live list, which the body shrinks. i is the
\* iterator's 0-based index; the loop ends when i >= len(list).
RECURSIVE ClearLoop(_, _)
ClearLoop(list, i) ==
    IF i >= Len(list) THEN list
    ELSE ClearLoop(removeHandler(list, list[i + 1]), i + 1)

\* LogUtils.clear_log_handlers(logger): the logger used (root for None)
\* and the handler list it is left with.
clear_log_handlers_target(arg) == IF arg = "None" THEN "root" ELSE arg

clear_log_handlers(list) == ClearLoop(list, 0)

LoggerInit ==
    /\ handlers = [l \in LoggerNames |-> <<>>]
    /\ logOp = [op |-> "init", logger |-> "root", before |-> <<>>]

LoggerIdle ==
    /\ handlers = [l \in LoggerNames |-> <<>>]
    /\ logOp = IdleOp

AddHandler ==
    \E l \in LoggerNames, h \in Handlers :
        /\ handlers' = [handlers EXCEPT ![l] = addHandler(@, h)]
        /\ logOp' = [op |-> "addHandler", logger |-> l, before |-> handlers[l]]
        /\ UNCHANGED <<handled, excVars, lafVars, recVars, mailVars>>

RemoveHandler ==
    \E l \in LoggerNames, h \in Handlers :
        /\ handlers' = [handlers EXCEPT ![l] = removeHandler(@, h)]
        /\ logOp' = [op |-> "removeHandler", logger |-> l, before |-> handlers[l]]
        /\ UNCHANGED <<handled, excVars, lafVars, recVars, mailVars>>

ClearLogHandlers ==
    \E arg \in LoggerNames \cup {"None"} :
        LET l == clear_log_handlers_target(arg) IN
        /\ handlers' = [handlers EXCEPT ![l] = clear_log_handlers(@)]
        /\ logOp' = [op |-> "clear_log_handlers", logger |-> l, before |-> handlers[l]]
        /\ UNCHANGED <<handled, excVars, lafVars, recVars, mailVars>>

(***************************************************************************)
(* Exceptions, tracebacks and the ambient exception (sys.exc_info())       *)
(***************************************************************************)

\* Traceback frames as traceback.extract_tb reports them. The source line
\* of a frame is "" when the source text is not available.
FrameA == [filename |-> "app.py", lineno |-> 12, name |-> "main", line |-> "a = 1 / 0"]
FrameB == [filename |-> "lib.py", lineno |-> 7, name |-> "div", line |-> ""]

\* A traceback is the list of its frames, first frame first; <<>> is None.
NoTb == <<>>
Tracebacks == {NoTb, <<FrameA>>, <<FrameB>>, <<FrameA, FrameB>>}

ExcClasses == {[type |-> "ZeroDivisionError", args |-> <<"division by zero">>],
               [type |-> "ValueError", args |-> <<"bad">>],
               [type |-> "ValueError", args |-> <<>>]}

\* An exception instance: its class, its args and its __traceback__.
Exceptions ==
    {[kind |-> "exc", type |-> c.type, args |-> c.args, tb |-> t] :
        c \in ExcClasses, t \in Tracebacks}

\* A tuple of length len; the items beyond len are not there.
Tuple(len, typ, val, tb) ==
    [kind |-> "tuple", len |-> len, typ |-> typ, val |-> val, tb |-> tb]

\* (type(e), e, e.__traceback__)
TripleOf(e) == Tuple(3, e.type, e, e.tb)

\* sys.exc_info() while no exception is being handled.
NoExcInfo == Tuple(3, "None", NoneVal, NoTb)

\* The tuples a caller can pass as an exception source.
ExcTuples ==
    {Tuple(0, "None", NoneVal, NoTb), NoExcInfo}
    \cup {Tuple(1, e.type, NoneVal, NoTb) : e \in Exceptions}
    \cup {Tuple(2, e.type, e, NoTb) : e \in Exceptions}
    \cup {Tuple(3, e.type, e, t) : e \in Exceptions, t \in Tracebacks}
    \cup {Tuple(3, "ValueError", NoneVal, t) : t \in Tracebacks}

\* The exceptions the application raises and handles; a raised exception
\* has a traceback.
ZeroDivision == [kind |-> "exc", type |-> "ZeroDivisionError",
                 args |-> <<"division by zero">>, tb |-> <<FrameA>>]
BadValue == [kind |-> "exc", type |-> "ValueError", args |-> <<"bad">>,
             tb |-> <<FrameA, FrameB>>]
RaisedExceptions == {ZeroDivision, BadValue}

(***************************************************************************)
(* ExcInfo                                                                 *)
(***************************************************************************)

\* The largest verbosity a caller passes; the smallest is -1.
MaxVerbosity == 5

Verbosities == (-1)..MaxVerbosity

Comments == {"", "oh-oh!"}

\* Object identities, as the default __repr__ shows them.
ObjAddrs == {"0x7f01", "0x7f02"}

program_name == "prog.py"
program_pid == "4711"

\* A constructor that keeps the traceback of a triple whose instance is
\* None, and reads the position from the last frame of the traceback.
ExcInfoInitLastFrame(exc_info, comment, verbosity, addr, ambient) ==
    LET src == IF exc_info = NoneVal THEN ambient ELSE exc_info
        exc == IF src.kind = "exc" THEN src
               ELSE IF src.kind = "tuple" /\ src.len > 1 THEN src.val
               ELSE NoneVal
        tb == IF src.kind = "exc" THEN src.tb
              ELSE IF src.kind = "tuple" /\ src.len > 2 THEN src.tb
              ELSE NoTb
        last == Len(tb)
    IN [addr |-> addr,
        prog_name |-> program_name,
        pid |-> program_pid,
        exc |-> exc,
        tb |-> IF exc = NoneVal THEN NoTb ELSE tb,
        filename |-> IF tb # NoTb THEN tb[last].filename ELSE "",
        linenum |-> IF tb # NoTb THEN tb[last].lineno ELSE -1,
        codeline |-> IF tb # NoTb THEN tb[last].line ELSE "",
        context |-> IF tb # NoTb THEN tb[last].name ELSE "",
        comment |-> comment,
        verbosity |-> verbosity]

\* ExcInfo.__init__(exc_info, comment, verbosity); addr is the identity
\* of the new object and ambient is sys.exc_info() at the call.
ExcInfoInit(exc_info, comment, verbosity, addr, ambient) ==
    LET src == IF exc_info = NoneVal THEN ambient ELSE exc_info
        exc == IF src.kind = "exc" THEN src
               ELSE IF src.kind = "tuple" /\ src.len > 1 THEN src.val
               ELSE NoneVal
        tb == IF src.kind = "exc" THEN src.tb
              ELSE IF src.kind = "tuple" /\ src.len > 1 /\ src.val # NoneVal
                   THEN (IF src.len > 2 THEN src.tb ELSE NoTb)
              ELSE NoTb
    IN [addr |-> addr,
        prog_name |-> program_name,
        pid |-> program_pid,
        exc |-> exc,
        tb |-> tb,
        filename |-> IF tb # NoTb THEN tb[1].filename ELSE "",
        linenum |-> IF tb # NoTb THEN tb[1].lineno ELSE -1,
        codeline |-> IF tb # NoTb THEN tb[1].line ELSE "",
        context |-> IF tb # NoTb THEN tb[1].name ELSE "",
        comment |-> comment,
        verbosity |-> verbosity]

\* repr(exc) of an exception or of None.
ReprExc(exc) ==
    IF exc = NoneVal THEN <<"None">>
    ELSE <<exc.type, "(">>
         \o (IF exc.args = <<>> THEN <<>> ELSE <<"'", exc.args[1], "'">>)
         \o <<")">>

\* str(exc).
StrExc(exc) ==
    IF exc = NoneVal THEN "None"
    ELSE IF exc.args = <<>> THEN "" ELSE exc.args[1]

\* A to_str tier 0 that shows the exception instead of the object.
ObjectReprOfExc(self) == ReprExc(self.exc)

\* object.__repr__ of an ExcInfo (the class defines no __repr__).
ObjectRepr(self) == <<"<logtools_vrb.logtools.ExcInfo object at ", self.addr, ">">>

\* The lines traceback prints for the frames of a traceback.
RECURSIVE FormatTb(_)
FormatTb(tb) ==
    IF tb = <<>> THEN <<>>
    ELSE <<"  File \"", Head(tb).filename, "\", line ", ToString(Head(tb).lineno),
           ", in ", Head(tb).name, "\n">>
         \o (IF Head(tb).line # "" THEN <<"    ", Head(tb).line, "\n">> ELSE <<>>)
         \o FormatTb(Tail(tb))

\* "".join(traceback.format_exception(exc)): the exception's own
\* __traceback__ (not ExcInfo.tb) and the line naming the exception.
FormatException(exc) ==
    IF exc = NoneVal THEN <<"NoneType: None", "\n">>
    ELSE (IF exc.tb # NoTb
          THEN <<"Traceback (most recent call last):", "\n">> \o FormatTb(exc.tb)
          ELSE <<>>)
         \o <<exc.type>>
         \o (IF StrExc(exc) # "" THEN <<": ", StrExc(exc)>> ELSE <<>>)
         \o <<"\n">>

\* A verbosity argument: an int, or None.
IntArg(n) == [kind |-> "int", v |-> n]

\* to_str, verbosity > 1: file, line and function, each only if known.
PositionClause(self) ==
    (IF self.filename # "" THEN <<" in file ", self.filename>> ELSE <<>>)
    \o (IF self.linenum >= 0 THEN <<", line ", ToString(self.linenum)>> ELSE <<>>)
    \o (IF self.context # "" THEN <<", function ", self.context>> ELSE <<>>)

\* A source-line clause that starts one tier late.
CodelineClauseTier4(self, v) ==
    IF v > 3 /\ self.codeline # "" THEN <<", executing '", self.codeline, "'">>
    ELSE <<>>

\* to_str, verbosity > 2: the source line, if one was captured.
CodelineClause(self, v) ==
    IF v > 2 /\ self.codeline # "" THEN <<", executing '", self.codeline, "'">>
    ELSE <<>>

\* A stack-trace clause for tier 4 alone.
TraceClauseOnlyTier4(self, v) ==
    IF v = 4 THEN <<"\n\n">> \o FormatException(self.exc) ELSE <<>>

\* to_str, verbosity > 3: the multiline stack trace.
TraceClause(self, v) ==
    IF v > 3 THEN <<"\n\n">> \o FormatException(self.exc) ELSE <<>>

\* ExcInfo.to_str(verbosity)
to_str(self, verbosity) ==
    LET v == IF verbosity = NoneVal THEN self.verbosity ELSE verbosity.v IN
    IF v = 0 THEN ObjectRepr(self)
    ELSE ReprExc(self.exc)
         \o (IF self.comment # "" THEN <<" [", self.comment, "]">> ELSE <<>>)
         \o (IF v > 1
             THEN PositionClause(self) \o CodelineClause(self, v) \o TraceClause(self, v)
             ELSE <<>>)

\* What a call gives back: the text it returns, or the exception it raises.
Returned(text) == [raised |-> "None", text |-> text]
Raised(error) == [raised |-> error, text |-> <<>>]

\* The keys of self.__dict__ as template fields, and str() of their values.
DictFields(self) ==
    [f \in {"{prog_name}", "{pid}", "{exc}", "{exc.__class__.__name__}", "{tb}",
            "{filename}", "{linenum}", "{codeline}", "{context}", "{comment}",
            "{verbosity}"} |->
        CASE f = "{prog_name}" -> self.prog_name
          [] f = "{pid}" -> self.pid
          [] f = "{exc}" -> StrExc(self.exc)
          [] f = "{exc.__class__.__name__}" ->
                 (IF self.exc = NoneVal THEN "NoneType" ELSE self.exc.type)
          [] f = "{tb}" -> (IF self.tb = NoTb THEN "None" ELSE "<traceback object>")
          [] f = "{filename}" -> self.filename
          [] f = "{linenum}" -> ToString(self.linenum)
          [] f = "{codeline}" -> self.codeline
          [] f = "{context}" -> self.context
          [] f = "{comment}" -> self.comment
          [] f = "{verbosity}" -> ToString(self.verbosity)]

\* Replacement fields that name no key of self.__dict__.
UnknownFields == {"{exc_type}", "{exc_text}", "{nokey}"}

\* str.replace(old, new) on a template whose replacement fields are tokens.
RECURSIVE Replace(_, _, _)
Replace(spec, old, new) ==
    IF spec = <<>> THEN <<>>
    ELSE (IF Head(spec) = old THEN new ELSE <<Head(spec)>>)
         \o Replace(Tail(spec), old, new)

\* An interpolation that leaves an unknown field in the text as it is.
RECURSIVE InterpolateLenient(_, _)
InterpolateLenient(spec, fields) ==
    IF spec = <<>> THEN Returned(<<>>)
    ELSE LET rest == InterpolateLenient(Tail(spec), fields)
             tok == IF Head(spec) \in DOMAIN fields THEN fields[Head(spec)]
                    ELSE Head(spec)
         IN Returned(<<tok>> \o rest.text)

\* str.format(**self.__dict__): the first unknown field raises KeyError.
RECURSIVE Interpolate(_, _)
Interpolate(spec, fields) ==
    IF spec = <<>> THEN Returned(<<>>)
    ELSE IF Head(spec) \in UnknownFields THEN Raised("KeyError")
    ELSE LET rest == Interpolate(Tail(spec), fields)
             tok == IF Head(spec) \in DOMAIN fields THEN fields[Head(spec)]
                    ELSE Head(spec)
         IN IF rest.raised # "None" THEN rest
            ELSE Returned(<<tok>> \o rest.text)

\* int(s) for the one-character specs __format__ converts.
DigitValue(s) == CHOOSE n \in 0..9 : ToString(n) = s

\* A template branch that substitutes {exc_text} before {exc}.
FormatTemplateTextFirst(self, format_spec) ==
    LET s1 == Replace(format_spec, "{exc_text}", <<"{exc}">>)
        s2 == Replace(s1, "{exc_type}", <<"{exc.__class__.__name__}">>)
        s3 == Replace(s2, "{exc}",
                      <<"{exc.__class__.__name__}", "('", "{exc}", "')">>)
    IN Interpolate(s3, DictFields(self))

\* __format__, any other spec: the three substitutions, then
\* str.format(**self.__dict__).
FormatTemplate(self, format_spec) ==
    LET s1 == Replace(format_spec, "{exc}",
                      <<"{exc.__class__.__name__}", "('", "{exc}", "')">>)
        s2 == Replace(s1, "{exc_type}", <<"{exc.__class__.__name__}">>)
        s3 == Replace(s2, "{exc_text}", <<"{exc}">>)
    IN Interpolate(s3, DictFields(self))

\* A __format__ whose empty template renders tier 1 whatever the object's
\* own verbosity.
ExcInfoFormatTier1(self, format_spec) ==
    IF format_spec = <<>> THEN Returned(to_str(self, IntArg(1)))
    ELSE IF Len(format_spec) = 1 /\ format_spec[1] \in {"0", "1", "2", "3", "4"}
    THEN Returned(to_str(self, IntArg(DigitValue(format_spec[1]))))
    ELSE FormatTemplate(self, format_spec)

\* ExcInfo.__format__(format_spec); "" is the empty template.
ExcInfoFormat(self, format_spec) ==
    IF format_spec = <<>> THEN Returned(to_str(self, NoneVal))
    ELSE IF Len(format_spec) = 1 /\ format_spec[1] \in {"0", "1", "2", "3", "4"}
    THEN Returned(to_str(self, IntArg(DigitValue(format_spec[1]))))
    ELSE FormatTemplate(self, format_spec)

\* ExcInfo.__str__
ExcInfoStr(self) == to_str(self, NoneVal)

\* The exception sources, comments and verbosities an ExcInfo is built from.
ExcSources == {NoneVal} \cup Exceptions \cup ExcTuples

\* The three convenience placeholders of __format__.
Placeholders == {"{exc}", "{exc_type}", "{exc_text}"}

\* Templates that mix the three placeholders in every order, or repeat
\* one, with text between.
PlaceholderTemplates ==
    {<<"{exc}">>}
    \cup {<<a, " / ", a>> : a \in Placeholders}
    \cup {t \in {<<a, " / ", b, " / ", c>> : a \in Placeholders, b \in Placeholders,
                                            c \in Placeholders} :
              t[1] # t[3] /\ t[1] # t[5] /\ t[3] # t[5]}

\* The templates format(ei, ...) is called with.
FormatSpecs ==
    {<<>>, <<"0">>, <<"1">>, <<"2">>, <<"3">>, <<"4">>, <<"5">>,
     <<"Exc ", "{exc}", " in line ", "{linenum}", ". ", "{comment}">>,
     <<"{exc_type}", ": ", "{exc_text}">>,
     <<"{nokey}">>,
     <<"Exc ", "{exc}", " in file ", "{filename}", ": ", "{nokey}", "{comment}">>}
    \cup PlaceholderTemplates

ExcIdle ==
    /\ ei = NoneVal
    /\ excOp = IdleOp
    /\ excOut = Returned(<<>>)

\* The state after ExcInfo(exc_info, comment, verbosity). The ambient
\* exception matters to the constructor only when exc_info is None.
ExcInit ==
    \E src \in ExcSources, c \in Comments, v \in Verbosities, a \in ObjAddrs :
        /\ handled \in {NoExcInfo} \cup
               (IF src = NoneVal
                THEN {TripleOf(e) : e \in {x \in Exceptions : x.tb # NoTb}}
                ELSE {})
        /\ ei = ExcInfoInit(src, c, v, a, handled)
        /\ excOp = [op |-> "init", ctor |-> [exc_info |-> src, comment |-> c,
                                             verbosity |-> v]]
        /\ excOut = Returned(<<>>)

ToStr ==
    \E varg \in {NoneVal} \cup {IntArg(n) : n \in Verbosities} :
        /\ excOut' = Returned(to_str(ei, varg))
        /\ excOp' = [op |-> "to_str", verbosity |-> varg, ctor |-> excOp.ctor]
        /\ UNCHANGED ei
        /\ UNCHANGED <<handled, loggerVars, lafVars, recVars, mailVars>>

Str ==
    /\ excOut' = Returned(ExcInfoStr(ei))
    /\ excOp' = [op |-> "str", ctor |-> excOp.ctor]
    /\ UNCHANGED ei
    /\ UNCHANGED <<handled, loggerVars, lafVars, recVars, mailVars>>

Format ==
    \E spec \in FormatSpecs :
        /\ excOut' = ExcInfoFormat(ei, spec)
        /\ excOp' = [op |-> "format", spec |-> spec, ctor |-> excOp.ctor]
        /\ UNCHANGED ei
        /\ UNCHANGED <<handled, loggerVars, lafVars, recVars, mailVars>>

(***************************************************************************)
(* LevelAwareFormatter                                                     *)
(***************************************************************************)

\* The logging levels, and a level the application registered itself.
NOTSET == 0
DEBUG == 10
INFO == 20
WARNING == 30
ERROR == 40
CRITICAL == 50
CustomLevel == WARNING + 5

StandardLevels == {NOTSET, DEBUG, INFO, WARNING, ERROR, CRITICAL}
Levels == StandardLevels \cup {CustomLevel}

\* logging.getLevelName
LevelName(l) ==
    CASE l = NOTSET -> "NOTSET"
      [] l = DEBUG -> "DEBUG"
      [] l = INFO -> "INFO"
      [] l = WARNING -> "WARNING"
      [] l = ERROR -> "ERROR"
      [] l = CRITICAL -> "CRITICAL"
      [] OTHER -> "Level " \o ToString(l)

\* Format strings: the literal pieces and the fields, one token each.
SIMPLE_FMT ==
    <<program_name, "[", "%(process)d", "]: ", "%(name)s", " - ", "%(message)s">>

QUALIFIED_FMT ==
    <<program_name, "[", "%(process)d", "]: [", "%(levelname)s", "] ", "%(name)s",
      " - ", "%(message)s", " ", "in ", "%(funcName)s", ", line ", "%(lineno)d",
      " (file ", "%(pathname)s", ")">>

DEFAULT_LEVEL_FORMATS ==
    [l \in StandardLevels |-> IF l \in {NOTSET, DEBUG, INFO} THEN SIMPLE_FMT
                              ELSE QUALIFIED_FMT]

\* The format strings of the sample usage.
HOUSTON_FMT == <<"Houston, ", "%(message)s", " in ", "%(funcName)s">>
BRACE_FMT == <<"{levelname}", ": ", "{message}", " ", "{ip}">>
ATTENTION_FMT == <<"Attention! ", "{message}", " ", "{ip}">>

\* The fields of each formatting style and the record attribute each names.
StyleFields(style) ==
    CASE style = "%" ->
            [t \in {"%(process)d", "%(name)s", "%(message)s", "%(levelname)s",
                    "%(funcName)s", "%(lineno)d", "%(pathname)s", "%(ip)s"} |->
                CASE t = "%(process)d" -> "process"
                  [] t = "%(name)s" -> "name"
                  [] t = "%(message)s" -> "message"
                  [] t = "%(levelname)s" -> "levelname"
                  [] t = "%(funcName)s" -> "funcName"
                  [] t = "%(lineno)d" -> "lineno"
                  [] t = "%(pathname)s" -> "pathname"
                  [] t = "%(ip)s" -> "ip"]
      [] style = "{" ->
            [t \in {"{levelname}", "{message}", "{ip}"} |->
                CASE t = "{levelname}" -> "levelname"
                  [] t = "{message}" -> "message"
                  [] t = "{ip}" -> "ip"]
      [] style = "$" ->
            [t \in {"${message}"} |-> "message"]

\* logging.Formatter(fmt, datefmt, style, validate, defaults=...): with
\* validate, a format string holding no field of the style is a ValueError.
FormatterValid(fmt, style) ==
    \E i \in 1..Len(fmt) : fmt[i] \in DOMAIN StyleFields(style)

Formatter(fmt, style, defaults) ==
    [kind |-> "Formatter", fmt |-> fmt, style |-> style, defaults |-> defaults]

\* The attributes a Formatter interpolates: the defaults, then the record's.
RecordValues(f, record) ==
    [n \in {"process", "name", "message", "levelname", "funcName", "lineno",
            "pathname"} \cup (IF f.defaults = NoneVal THEN {} ELSE {"ip"}) |->
        CASE n = "process" -> record.process
          [] n = "name" -> record.name
          [] n = "message" -> record.message
          [] n = "levelname" -> record.levelname
          [] n = "funcName" -> record.funcName
          [] n = "lineno" -> record.lineno
          [] n = "pathname" -> record.pathname
          [] n = "ip" -> f.defaults.ip]

\* Formatter.format(record) for a record without exception and stack
\* text: the fields of the formatter's style are interpolated, everything
\* else is literal; a field the record lacks is a ValueError.
RECURSIVE FormatMessage(_, _, _)
FormatMessage(fmt, fields, values) ==
    IF fmt = <<>> THEN Returned(<<>>)
    ELSE IF Head(fmt) \in DOMAIN fields /\ fields[Head(fmt)] \notin DOMAIN values
    THEN Raised("ValueError")
    ELSE LET rest == FormatMessage(Tail(fmt), fields, values)
             tok == IF Head(fmt) \in DOMAIN fields THEN values[fields[Head(fmt)]]
                    ELSE Head(fmt)
         IN IF rest.raised # "None" THEN rest ELSE Returned(<<tok>> \o rest.text)

FormatterFormat(f, record) ==
    FormatMessage(f.fmt, StyleFields(f.style), RecordValues(f, record))

\* A dict passed as level_fmts (None is NoneVal).
Dict(map) == [kind |-> "dict", map |-> map]

\* A constructor that installs the built-in mapping whatever the style.
EffectiveLevelFmtsAnyStyle(level_fmts, style) ==
    IF level_fmts = NoneVal THEN Dict(DEFAULT_LEVEL_FORMATS) ELSE level_fmts

\* "if level_fmts is None and style == '%': level_fmts = DEFAULT_LEVEL_FORMATS.copy()"
EffectiveLevelFmts(level_fmts, style) ==
    IF level_fmts = NoneVal /\ style = "%" THEN Dict(DEFAULT_LEVEL_FORMATS)
    ELSE level_fmts

\* LevelAwareFormatter.__init__: the new object, or the ValueError of a
\* Formatter whose format string fails validation.
LevelAwareFormatterInit(default_fmt, style, validate, level_fmts, defaults) ==
    LET fmts == EffectiveLevelFmts(level_fmts, style)
        map == IF fmts = NoneVal THEN <<>> ELSE fmts.map
    IN IF validate /\ (\/ \E l \in DOMAIN map : ~FormatterValid(map[l], style)
                       \/ ~FormatterValid(default_fmt, style))
       THEN [kind |-> "ValueError"]
       ELSE [kind |-> "LevelAwareFormatter",
             default_mappings |-> defaults,
             formatters |-> [l \in DOMAIN map |-> Formatter(map[l], style, defaults)],
             default |-> Formatter(default_fmt, style, defaults)]

\* dict[level] = f
DictSet(d, level, f) ==
    [l \in DOMAIN d \cup {level} |-> IF l = level THEN f ELSE d[l]]

\* dict.pop(level)
DictPop(d, level) == [l \in DOMAIN d \ {level} |-> d[l]]

\* LevelAwareFormatter.set_level_formatter, once the new Formatter exists.
set_level_formatter(formatters, level, f) == DictSet(formatters, level, f)

\* A remove_level_formatter that empties the whole mapping.
remove_level_formatter_clears(formatters, level) ==
    IF level \in DOMAIN formatters THEN <<>> ELSE formatters

\* A remove_level_formatter that looks the level up and leaves it in place.
remove_level_formatter_keeps(formatters, level) == formatters

\* LevelAwareFormatter.remove_level_formatter
remove_level_formatter(formatters, level) ==
    IF level \in DOMAIN formatters THEN DictPop(formatters, level) ELSE formatters

\* The Formatter that LevelAwareFormatter.format hands the record to.
Dispatch(self, levelno) ==
    IF levelno \in DOMAIN self.formatters THEN self.formatters[levelno]
    ELSE self.default

\* LevelAwareFormatter.format(record)
format(self, record) == FormatterFormat(Dispatch(self, record.levelno), record)

\* The records formatted: one per level, logged from the same place.
LogRecords ==
    {[levelno |-> l, levelname |-> LevelName(l), name |-> "app",
      message |-> "we have a problem", process |-> program_pid,
      funcName |-> "main", lineno |-> "42", pathname |-> "/srv/app.py"] :
        l \in Levels}

\* The levels set_level_formatter and remove_level_formatter are called
\* with: two of the built-in mapping and one outside it.
OpLevels == {INFO, WARNING, CustomLevel}

IpDefaults == [ip |-> "192.168.0.1"]

LafIdle ==
    /\ laf = NoneVal
    /\ lafOp = IdleOp
    /\ lafOut = Returned(<<>>)
    /\ lafHist = NoneVal

\* The state after LevelAwareFormatter(default_fmt, None, style, validate,
\* level_fmts=..., defaults=...). lafHist records the arguments, and per
\* level the renderer last installed and not removed since (expected) and
\* the mapping as it would be had no renderer been registered by
\* set_level_formatter (unset): the set calls left out, and with them the
\* remove calls that directly undo one.
LafInit ==
    \E default_fmt \in {SIMPLE_FMT, BRACE_FMT}, style \in {"%", "{", "$"},
       validate \in BOOLEAN,
       level_fmts \in {NoneVal, Dict(<<>>), Dict([l \in {WARNING} |-> HOUSTON_FMT])},
       defaults \in {NoneVal, IpDefaults} :
        /\ laf = LevelAwareFormatterInit(default_fmt, style, validate, level_fmts,
                                         defaults)
        /\ lafOp = [op |-> "init"]
        /\ lafOut = Returned(<<>>)
        /\ lafHist =
            [style |-> style, level_fmts |-> level_fmts, default_fmt |-> default_fmt,
             defaults |-> defaults, touched |-> {},
             unset |-> IF laf.kind = "ValueError" THEN <<>> ELSE laf.formatters,
             expected |->
                [l \in Levels |->
                    IF level_fmts # NoneVal
                    THEN (IF l \in DOMAIN level_fmts.map
                          THEN Formatter(level_fmts.map[l], style, defaults)
                          ELSE NoneVal)
                    ELSE IF style = "%" /\ l \in StandardLevels
                    THEN Formatter(DEFAULT_LEVEL_FORMATS[l], style, defaults)
                    ELSE NoneVal]]

\* The format strings, styles and validate flags set_level_formatter is
\* called with: the two of the sample usage, and a format string of the
\* other style with and without validation.
SetFormatterArgs ==
    {[fmt |-> HOUSTON_FMT, style |-> "%", validate |-> TRUE],
     [fmt |-> ATTENTION_FMT, style |-> "{", validate |-> TRUE],
     [fmt |-> ATTENTION_FMT, style |-> "%", validate |-> TRUE],
     [fmt |-> ATTENTION_FMT, style |-> "%", validate |-> FALSE]}

\* set_level_formatter(level, fmt, None, style, validate): a format string
\* that fails validation raises before anything is stored.
SetLevelFormatter ==
    \E level \in OpLevels, args \in SetFormatterArgs :
        LET fmt == args.fmt
            style == args.style
            validate == args.validate
        IN
        /\ laf.kind = "LevelAwareFormatter"
        /\ IF validate /\ ~FormatterValid(fmt, style)
           THEN /\ lafOp' = [op |-> "set_level_formatter", level |-> level,
                             raised |-> "ValueError"]
                /\ UNCHANGED <<laf, lafHist>>
           ELSE LET f == Formatter(fmt, style, laf.default_mappings) IN
                /\ laf' = [laf EXCEPT
                             !.formatters = set_level_formatter(@, level, f)]
                /\ lafOp' = [op |-> "set_level_formatter", level |-> level,
                             raised |-> "None"]
                /\ lafHist' = [lafHist EXCEPT !.expected[level] = f,
                                              !.touched = @ \cup {level}]
        /\ lafOut' = Returned(<<>>)
        /\ UNCHANGED <<handled, loggerVars, excVars, recVars, mailVars>>

\* remove_level_formatter(level); afterSet says that the call before it
\* was a set_level_formatter of the same level that stored a renderer.
RemoveLevelFormatter ==
    \E level \in OpLevels :
        /\ laf.kind = "LevelAwareFormatter"
        /\ laf' = [laf EXCEPT !.formatters = remove_level_formatter(@, level)]
        /\ lafOp' = [op |-> "remove_level_formatter", level |-> level,
                     afterSet |-> /\ lafOp.op = "set_level_formatter"
                                  /\ lafOp.level = level
                                  /\ lafOp.raised = "None"]
        /\ lafHist' = [lafHist EXCEPT
                         !.expected[level] = NoneVal,
                         !.touched = @ \cup {level},
                         !.unset = IF lafOp.op = "set_level_formatter"
                                      /\ lafOp.level = level /\ lafOp.raised = "None"
                                   THEN @
                                   ELSE remove_level_formatter(@, level)]
        /\ lafOut' = Returned(<<>>)
        /\ UNCHANGED <<handled, loggerVars, excVars, recVars, mailVars>>

FormatRecord ==
    \E record \in LogRecords :
        /\ laf.kind = "LevelAwareFormatter"
        /\ lafOut' = format(laf, record)
        /\ lafOp' = [op |-> "format", record |-> record]
        /\ UNCHANGED <<laf, lafHist>>
        /\ UNCHANGED <<handled, loggerVars, excVars, recVars, mailVars>>

(***************************************************************************)
(* LogUtils.make_log_record and LogUtils.find_caller                       *)
(***************************************************************************)

\* How deep the application's call stack gets, and the largest stacklevel
\* a caller passes.
MaxDepth == 3
MaxStackLevel == 3

\* A frame: the file and function of its code and the line it is at.
Frame(filename, lineno, name) ==
    [filename |-> filename, lineno |-> lineno, name |-> name]

ModuleFrame == Frame("app.py", 5, "<module>")
UserFrames == {Frame("app.py", 21, "work"), Frame("lib.py", 30, "helper")}

\* logging._srcfile, and the frames of the host's findCaller and of the
\* currentframe lambda it calls.
SrcFile == "logging/__init__.py"
HostFindCallerFrame == Frame(SrcFile, 1561, "findCaller")
HostLambdaFrame == Frame(SrcFile, 160, "<lambda>")

\* The frames of LogUtils at the line where each calls the next.
LogUtilsFile == "logtools_vrb/logtools.py"
MakeLogRecordFrames ==
    <<Frame(LogUtilsFile, 221, "make_log_record"),
      Frame(LogUtilsFile, 296, "_make_log_record")>>
FindCallerFrames ==
    <<Frame(LogUtilsFile, 275, "find_caller"),
      Frame(LogUtilsFile, 323, "_find_caller")>>

UnknownCaller == Frame("(unknown file)", 0, "(unknown function)")

\* Logger.findCaller of Python 3.8 to 3.10, on the frames below the
\* currentframe lambda, outermost first (index 0 is "no frame"):
\* currentframe() is sys._getframe(3), f_back of it is the first candidate,
\* stacklevel - 1 more frames are skipped, and frames of the logging
\* module itself are passed over.
RECURSIVE WalkBack(_, _)
WalkBack(i, k) == IF i # 0 /\ k > 1 THEN WalkBack(i - 1, k - 1) ELSE i

RECURSIVE SkipSrcFile(_, _)
SkipSrcFile(frames, i) ==
    IF i = 0 THEN UnknownCaller
    ELSE IF frames[i].filename = SrcFile THEN SkipSrcFile(frames, i - 1)
    ELSE frames[i]

FindCallerGetframe3(frames, stacklevel) ==
    LET top == Len(frames) + 1                  \* the lambda's frame
        cur == IF top - 3 >= 1 THEN top - 3 ELSE 0
        orig == IF cur # 0 THEN cur - 1 ELSE 0
        f == WalkBack(orig, stacklevel)
    IN SkipSrcFile(frames, IF f = 0 THEN orig ELSE f)

\* Logger.findCaller of Python 3.11 and later: currentframe() is
\* findCaller's own frame; each step goes one frame back and counts it
\* unless it is a frame of the logging module.
RECURSIVE StepBack(_, _, _)
StepBack(frames, i, k) ==
    IF k > 0 /\ i - 1 # 0
    THEN StepBack(frames, i - 1, IF frames[i - 1].filename = SrcFile THEN k ELSE k - 1)
    ELSE i

FindCallerInternalFrames(frames, stacklevel) ==
    frames[StepBack(frames, Len(frames), stacklevel)]

\* The two conventions a host's logging module can follow.
Hosts == {"getframe3", "internal_frames"}

\* logger.findCaller(stack_info, stacklevel), called with these frames on
\* the stack (the caller of findCaller last).
findCaller(h, frames, stacklevel) ==
    IF h = "getframe3"
    THEN FindCallerGetframe3(frames \o <<HostFindCallerFrame>>, stacklevel)
    ELSE FindCallerInternalFrames(frames \o <<HostFindCallerFrame>>, stacklevel)

\* The stack text findCaller returns when stack_info is set.
StackInfo(stack_info) ==
    IF stack_info THEN "Stack (most recent call last): ..." ELSE "None"

\* An exc_info argument that is a bool.
Bool(b) == [kind |-> "bool", b |-> b]

\* "if exc_info:" for a bool, an exception or a tuple.
Truthy(x) ==
    CASE x.kind = "bool" -> x.b
      [] x.kind = "tuple" -> x.len > 0
      [] OTHER -> TRUE

\* The exception slot _make_log_record hands to makeRecord.
RecordExcInfo(exc_info, ambient) ==
    IF Truthy(exc_info)
    THEN (IF exc_info.kind = "exc" THEN TripleOf(exc_info)
          ELSE IF exc_info.kind # "tuple" THEN ambient
          ELSE NoneVal)
    ELSE NoneVal

\* LogUtils.make_log_record(level, msg, logger=, exc_info=, extra=,
\* stack_info=, stacklevel=) called from the top frame of stack.
make_log_record(h, frames, ambient, level, msg, logger, exc_info, extra, stack_info, stacklevel) ==
    LET lg == IF logger = "None" THEN "root" ELSE logger
        at == findCaller(h, frames \o MakeLogRecordFrames, stacklevel)
    IN [kind |-> "LogRecord", name |-> lg, levelno |-> level,
        pathname |-> at.filename, lineno |-> at.lineno, funcName |-> at.name,
        msg |-> msg, args |-> <<>>,
        exc_info |-> RecordExcInfo(exc_info, ambient),
        extra |-> extra, stack_info |-> StackInfo(stack_info)]

\* LogUtils.find_caller(stack_info, stacklevel) called from the top frame
\* of stack: a CallerRecord.
find_caller(h, frames, stack_info, stacklevel) ==
    LET at == findCaller(h, frames \o FindCallerFrames, stacklevel)
    IN [kind |-> "CallerRecord", prog_name |-> program_name, pid |-> program_pid,
        filename |-> at.filename, line_number |-> at.lineno,
        context_name |-> at.name, stack_info |-> StackInfo(stack_info)]

\* LogUtils.get_caller(lr)
get_caller(lr) ==
    [kind |-> "CallerRecord", prog_name |-> program_name, pid |-> program_pid,
     filename |-> lr.pathname, line_number |-> lr.lineno,
     context_name |-> lr.funcName, stack_info |-> lr.stack_info]

\* LogUtils.get_exc_info(exc_info): for a LogRecord the ExcInfo of its
\* exc_info slot, with the record's "comment" attribute if it has one;
\* addr is the identity of the new object, ambient is sys.exc_info().
get_exc_info(exc_info, addr, ambient) ==
    IF exc_info # NoneVal /\ exc_info.kind = "LogRecord"
    THEN (IF exc_info.extra # NoneVal /\ "comment" \in DOMAIN exc_info.extra
          THEN ExcInfoInit(exc_info.exc_info, exc_info.extra.comment, 1, addr, ambient)
          ELSE ExcInfoInit(exc_info.exc_info, "", 1, addr, ambient))
    ELSE ExcInfoInit(exc_info, "", 1, addr, ambient)

\* The exception sources make_log_record is called with.
RecordExcArgs ==
    {Bool(FALSE), Bool(TRUE), BadValue,
     [kind |-> "exc", type |-> "ValueError", args |-> <<"bad">>, tb |-> NoTb],
     TripleOf(ZeroDivision), Tuple(0, "None", NoneVal, NoTb)}

\* The level, extra attributes and stack_info flag it is called with.
RecordOptions ==
    {[level |-> NOTSET, msg |-> "", extra |-> NoneVal, stack_info |-> FALSE],
     [level |-> ERROR, msg |-> "Exception caught!",
      extra |-> [comment |-> "I knew that!"], stack_info |-> TRUE]}

RecIdle ==
    /\ host = "idle"
    /\ stack = <<>>
    /\ recOp = IdleOp
    /\ recOut = NoneVal

RecInit ==
    /\ host \in Hosts
    /\ stack = <<ModuleFrame>>
    /\ handled = NoExcInfo
    /\ recOp = [op |-> "init"]
    /\ recOut = NoneVal

\* The application calls a function, or returns from one.
Call ==
    /\ Len(stack) < MaxDepth
    /\ \E f \in UserFrames : stack' = Append(stack, f)
    /\ UNCHANGED <<host, recOp, recOut, handled, loggerVars, excVars, lafVars, mailVars>>

Return ==
    /\ Len(stack) > 1
    /\ stack' = SubSeq(stack, 1, Len(stack) - 1)
    /\ UNCHANGED <<host, recOp, recOut, handled, loggerVars, excVars, lafVars, mailVars>>

\* An except block is entered with a raised exception, and left.
EnterExcept ==
    /\ handled = NoExcInfo
    /\ \E e \in RaisedExceptions : handled' = TripleOf(e)
    /\ UNCHANGED <<recVars, loggerVars, excVars, lafVars, mailVars>>

LeaveExcept ==
    /\ handled # NoExcInfo
    /\ handled' = NoExcInfo
    /\ UNCHANGED <<recVars, loggerVars, excVars, lafVars, mailVars>>

MakeLogRecord ==
    \E o \in RecordOptions, logger \in {"None", "app"}, exc_info \in RecordExcArgs,
       stacklevel \in 1..MaxStackLevel :
        /\ recOut' = make_log_record(host, stack, handled, o.level, o.msg, logger,
                                     exc_info, o.extra, o.stack_info, stacklevel)
        /\ recOp' = [op |-> "make_log_record", exc_info |-> exc_info,
                     stacklevel |-> stacklevel, stack |-> stack, ambient |-> handled]
        /\ UNCHANGED <<host, stack, handled, loggerVars, excVars, lafVars, mailVars>>

FindCaller ==
    \E stack_info \in BOOLEAN, stacklevel \in 1..MaxStackLevel :
        /\ recOut' = find_caller(host, stack, stack_info, stacklevel)
        /\ recOp' = [op |-> "find_caller", stacklevel |-> stacklevel, stack |-> stack]
        /\ UNCHANGED <<host, stack, handled, loggerVars, excVars, lafVars, mailVars>>

\* LogUtils.get_caller on the record make_log_record returned.
GetCaller ==
    /\ recOp.op = "make_log_record"
    /\ recOut' = get_caller(recOut)
    /\ recOp' = [op |-> "get_caller", stacklevel |-> recOp.stacklevel,
                 stack |-> recOp.stack]
    /\ UNCHANGED <<host, stack, handled, loggerVars, excVars, lafVars, mailVars>>

\* LogUtils.get_exc_info on the record make_log_record returned, or on
\* an exception, or without argument.
GetExcInfo ==
    /\ recOp.op = "make_log_record"
    /\ \E arg \in {recOut, NoneVal, BadValue}, a \in ObjAddrs :
        /\ recOut' = get_exc_info(arg, a, handled)
        /\ recOp' = [op |-> "get_exc_info", arg |-> arg, ambient |-> handled]
    /\ UNCHANGED <<host, stack, handled, loggerVars, excVars, lafVars, mailVars>>

(***************************************************************************)
(* MailLogHandler                                                          *)
(***************************************************************************)

\* How many records the handler is given.
MaxEmits == 2

\* socket.getfqdn() and its first label.
fqdn == "host.example.org"
hostname == "host"

DEFLT_SUB_START_FMT == <<"[", "%(fqdn)s", "] ", "%(program)s", ": ">>

\* A subject start that also uses the host name and a record attribute.
LEVEL_SUB_START_FMT == <<"%(levelname)s", " on ", "%(host)s", ": ">>

SubStartFmts == {DEFLT_SUB_START_FMT, LEVEL_SUB_START_FMT}

\* MailLogHandler.__init__(mail_to, sub_start_fmt=...): program, host and
\* fqdn are filled in at once, the record attributes in emit.
MailLogHandlerInit(mail_to, sub_start_fmt) ==
    [mail_to |-> mail_to,
     sub_start_fmt |->
         Replace(Replace(Replace(sub_start_fmt, "%(program)s", <<program_name>>),
                         "%(host)s", <<hostname>>),
                 "%(fqdn)s", <<fqdn>>)]

\* A record's msg: a string, an exception, or an ExcInfo object.
StrMsg(text) == [kind |-> "str", s |-> text]
ExcInfoMsg(obj) == [kind |-> "ExcInfo", obj |-> obj]

\* LogRecord.getMessage(): str(msg); the records here carry no args.
getMessage(lr) ==
    CASE lr.msg.kind = "str" -> <<lr.msg.s>>
      [] lr.msg.kind = "exc" -> <<StrExc(lr.msg)>>
      [] lr.msg.kind = "ExcInfo" -> ExcInfoStr(lr.msg.obj)

\* fmt % lr.__dict__ for the record attributes a subject start uses.
RECURSIVE PercentFormat(_, _)
PercentFormat(fmt, lr) ==
    IF fmt = <<>> THEN <<>>
    ELSE (CASE Head(fmt) = "%(levelname)s" -> <<LevelName(lr.levelno)>>
            [] Head(fmt) = "%(name)s" -> <<lr.name>>
            [] OTHER -> <<Head(fmt)>>)
         \o PercentFormat(Tail(fmt), lr)

\* "if lr.exc_info" / "not lr.exc_info" for a slot that is None or a tuple.
SlotFilled(slot) == slot # NoneVal /\ Truthy(slot)

\* Formatter.formatException(slot): the traceback print-out of the slot's
\* triple without its last newline.
FormatExceptionText(slot) ==
    LET text == FormatException(IF slot.val = NoneVal THEN NoneVal
                                ELSE [slot.val EXCEPT !.tb = slot.tb])
    IN SubSeq(text, 1, Len(text) - 1)

\* Handler.format(lr) with the handler's default formatter: the message,
\* and the exception text on a new line if the slot is filled.
HandlerFormat(lr) ==
    getMessage(lr)
    \o (IF SlotFilled(lr.exc_info)
        THEN <<"\n">> \o FormatExceptionText(lr.exc_info) ELSE <<>>)

\* An emit that looks at the exception-info slot before the type of msg.
MailContentSlotFirst(self, lr, addr, ambient) ==
    LET formatted_msg == HandlerFormat(lr)
        start == PercentFormat(self.sub_start_fmt, lr)
        message == getMessage(lr)
    IN IF SlotFilled(lr.exc_info)
       THEN LET e == ExcInfoInit(lr.exc_info, "", 1, addr, ambient)
            IN [subject |-> start \o <<"[EXC] ">> \o message \o <<" -- ">>
                            \o to_str(e, IntArg(1)),
                body |-> to_str(e, IntArg(3)) \o <<"\n\n">> \o formatted_msg]
       ELSE IF lr.msg.kind \in {"exc", "ExcInfo"}
       THEN LET mail_msg == IF lr.msg.kind = "exc"
                            THEN ExcInfoInit(lr.msg, "", 1, addr, ambient)
                            ELSE lr.msg.obj
            IN [subject |-> start \o <<"[EXC] ">> \o to_str(mail_msg, IntArg(1)),
                body |-> to_str(mail_msg, IntArg(4))]
       ELSE [subject |-> start \o message, body |-> formatted_msg]

\* emit, up to the with statement: the subject and the body of the mail.
\* addr is the identity of the ExcInfo it builds, ambient is sys.exc_info().
MailContent(self, lr, addr, ambient) ==
    LET formatted_msg == HandlerFormat(lr)
        start == PercentFormat(self.sub_start_fmt, lr)
        message == getMessage(lr)
    IN IF lr.msg.kind \in {"exc", "ExcInfo"}
       THEN LET mail_msg == IF lr.msg.kind = "exc"
                            THEN ExcInfoInit(lr.msg, "", 1, addr, ambient)
                            ELSE lr.msg.obj
            IN [subject |-> start \o <<"[EXC] ">> \o to_str(mail_msg, IntArg(1)),
                body |-> to_str(mail_msg, IntArg(4))]
       ELSE IF ~SlotFilled(lr.exc_info)
       THEN [subject |-> start \o message, body |-> formatted_msg]
       ELSE LET e == ExcInfoInit(lr.exc_info, "", 1, addr, ambient)
            IN [subject |-> start \o <<"[EXC] ">> \o message \o <<" -- ">>
                            \o to_str(e, IntArg(1)),
                body |-> to_str(e, IntArg(3)) \o <<"\n\n">> \o formatted_msg]

\* One call on a transport: which transport, which call, and whether it
\* returned (ok) or raised.
TransportCall(id, call, ok) == [transport |-> id, call |-> call, ok |-> ok]

\* How the transport behaves during one emit.
TransportOutcomes == {"ok", "open_fails", "login_fails", "send_fails"}

\* A transport used without a with statement: a failure skips the release.
UseTransportNoRelease(id, outcome) ==
    IF outcome = "open_fails"
    THEN [calls |-> <<TransportCall(id, "open", FALSE)>>,
          raised |-> "MailError", sent |-> FALSE]
    ELSE IF outcome = "login_fails"
    THEN [calls |-> <<TransportCall(id, "open", TRUE), TransportCall(id, "login", FALSE)>>,
          raised |-> "MailError", sent |-> FALSE]
    ELSE IF outcome = "send_fails"
    THEN [calls |-> <<TransportCall(id, "open", TRUE), TransportCall(id, "login", TRUE),
                      TransportCall(id, "send", FALSE)>>,
          raised |-> "MailError", sent |-> FALSE]
    ELSE [calls |-> <<TransportCall(id, "open", TRUE), TransportCall(id, "login", TRUE),
                      TransportCall(id, "send", TRUE), TransportCall(id, "release", TRUE)>>,
          raised |-> "None", sent |-> TRUE]

\* emit, the with statement: the transport is constructed and entered,
\* login() and send_mail_message() run in the block, and leaving the block,
\* by its end or by an exception of login or send, releases the transport;
\* the exception then goes on to the caller of emit. A transport that
\* cannot be opened is never entered, so it is not released.
UseTransport(id, outcome) ==
    IF outcome = "open_fails"
    THEN [calls |-> <<TransportCall(id, "open", FALSE)>>,
          raised |-> "MailError", sent |-> FALSE]
    ELSE LET block == IF outcome = "login_fails"
                      THEN <<TransportCall(id, "login", FALSE)>>
                      ELSE <<TransportCall(id, "login", TRUE),
                             TransportCall(id, "send", outcome = "ok")>>
         IN [calls |-> <<TransportCall(id, "open", TRUE)>> \o block
                       \o <<TransportCall(id, "release", TRUE)>>,
             raised |-> IF outcome = "ok" THEN "None" ELSE "MailError",
             sent |-> outcome = "ok"]

\* The records the handler is given: msg is a string, a caught exception or
\* an ExcInfo; the slot is None, the triple logging stores for exc_info=True
\* while nothing is handled, or the triple of an exception.
MailMsgs ==
    {StrMsg("Test"), ZeroDivision,
     ExcInfoMsg(ExcInfoInit(BadValue, "oh-oh!", 2, "0x7f01", NoExcInfo))}

MailRecords ==
    {[kind |-> "LogRecord", name |-> "app", levelno |-> ERROR, msg |-> m,
      exc_info |-> x] :
        m \in MailMsgs, x \in {NoneVal, NoExcInfo, TripleOf(BadValue)}}

MailIdle ==
    /\ mlh = NoneVal
    /\ mailOp = IdleOp
    /\ transports = 0
    /\ outbox = <<>>

\* The state after MailLogHandler(mail_to, sub_start_fmt=...).
MailInit ==
    /\ \E f \in SubStartFmts : mlh = MailLogHandlerInit("me@mydomain.com", f)
    /\ mailOp = [op |-> "init"]
    /\ transports = 0
    /\ outbox = <<>>

\* MailLogHandler.emit(lr)
Emit ==
    /\ transports < MaxEmits
    /\ \E lr \in MailRecords, o \in TransportOutcomes, a \in ObjAddrs :
        LET content == MailContent(mlh, lr, a, handled)
            used == UseTransport(transports + 1, o)
        IN /\ transports' = transports + 1
           /\ outbox' = IF used.sent
                        THEN Append(outbox, [subject |-> content.subject,
                                             to |-> mlh.mail_to,
                                             body |-> content.body])
                        ELSE outbox
           /\ mailOp' = [op |-> "emit", lr |-> lr, content |-> content,
                         calls |-> used.calls, raised |-> used.raised,
                         delivered |-> Len(outbox)]
    /\ UNCHANGED <<mlh, handled, loggerVars, excVars, lafVars, recVars>>

(***************************************************************************)
(* Specifications                                                          *)
(***************************************************************************)

\* Loggers: handlers are added, removed and cleared.
LoggerSpecInit == LoggerInit /\ handled = NoExcInfo /\ ExcIdle /\ LafIdle /\ RecIdle /\ MailIdle

LoggerNext ==
    \/ AddHandler
    \/ RemoveHandler
    \/ ClearLogHandlers

SpecLogger == LoggerSpecInit /\ [][LoggerNext]_vars

\* ExcInfo: an object is built and rendered.
ExcSpecInit == ExcInit /\ LoggerIdle /\ LafIdle /\ RecIdle /\ MailIdle

ExcNext ==
    \/ ToStr
    \/ Str
    \/ Format

SpecExc == ExcSpecInit /\ [][ExcNext]_vars

\* LevelAwareFormatter: a formatter is built, changed and used.
LafSpecInit == LafInit /\ handled = NoExcInfo /\ LoggerIdle /\ ExcIdle /\ RecIdle /\ MailIdle

LafNext ==
    \/ SetLevelFormatter
    \/ RemoveLevelFormatter
    \/ FormatRecord

SpecLaf == LafSpecInit /\ [][LafNext]_vars

\* LogUtils: the application calls and returns, handles exceptions, and
\* builds log records and caller records on the way.
RecSpecInit == RecInit /\ LoggerIdle /\ ExcIdle /\ LafIdle /\ MailIdle

RecNext ==
    \/ Call
    \/ Return
    \/ EnterExcept
    \/ LeaveExcept
    \/ MakeLogRecord
    \/ FindCaller
    \/ GetCaller
    \/ GetExcInfo

SpecRec == RecSpecInit /\ [][RecNext]_vars

\* MailLogHandler: a handler is built and given records to mail.
MailSpecInit ==
    MailInit /\ handled = NoExcInfo /\ LoggerIdle /\ ExcIdle /\ LafIdle /\ RecIdle

MailNext == Emit

SpecMail == MailSpecInit /\ [][MailNext]_vars

(***************************************************************************)
(* Properties                                                              *)
(***************************************************************************)

\* text holds sub as a contiguous piece.
Contains(text, sub) ==
    \E i \in 0..(Len(text) - Len(sub)) : SubSeq(text, i + 1, i + Len(sub)) = sub

\* text holds the token tok.
HasToken(text, tok) == \E i \in 1..Len(text) : text[i] = tok

\* C1: when clear_log_handlers returns, the logger it used (the root
\* logger when none was given) has no handlers left, however many it had.
C1_ClearLeavesNoHandlers ==
    logOp.op = "clear_log_handlers" => handlers[logOp.logger] = <<>>

\* C1, reached: a clear_log_handlers call on a logger holding two or more
\* handlers.
C1_ClearedSeveral ==
    logOp.op = "clear_log_handlers" /\ Len(logOp.before) >= 2

\* The renderer a level should use by the formatter's history: the one
\* last installed for it and not removed since, else the default one.
ExpectedRenderer(l) ==
    IF lafHist.expected[l] # NoneVal THEN lafHist.expected[l]
    ELSE Formatter(lafHist.default_fmt, lafHist.style, lafHist.defaults)

\* C2: after any sequence of set_level_formatter and remove_level_formatter
\* calls, every level is rendered by the renderer last installed for it
\* and not removed since, else by the default renderer (so a call for one
\* level leaves every other level as it was), and format returns that
\* renderer's output.
C2_FormatUsesLastSetRenderer ==
    laf.kind = "LevelAwareFormatter" =>
        /\ \A l \in Levels : Dispatch(laf, l) = ExpectedRenderer(l)
        /\ lafOp.op = "format" =>
               lafOut = FormatterFormat(ExpectedRenderer(lafOp.record.levelno),
                                        lafOp.record)

\* C2, reached: a WARNING record formatted by a renderer set for WARNING
\* after the INFO renderer was removed.
C2_FormattedAfterSetAndRemove ==
    /\ laf.kind = "LevelAwareFormatter"
    /\ lafOp.op = "format"
    /\ lafOp.record.levelno = WARNING
    /\ lafHist.touched = {INFO, WARNING}
    /\ lafHist.expected[WARNING] # NoneVal
    /\ lafHist.expected[WARNING].fmt = HOUSTON_FMT
    /\ lafHist.expected[INFO] = NoneVal
    /\ lafOut.raised = "None"

\* The formatter had no renderer been registered by set_level_formatter.
UnsetLaf == [laf EXCEPT !.formatters = lafHist.unset]

\* remove_level_formatter(X) has just undone a set_level_formatter(X, ...).
SetThenRemoved ==
    /\ laf.kind = "LevelAwareFormatter"
    /\ lafOp.op = "remove_level_formatter"
    /\ lafOp.afterSet

SimpleText(r) ==
    <<program_name, "[", r.process, "]: ", r.name, " - ", r.message>>

QualifiedText(r) ==
    <<program_name, "[", r.process, "]: [", r.levelname, "] ", r.name, " - ",
      r.message, " ", "in ", r.funcName, ", line ", r.lineno, " (file ",
      r.pathname, ")">>

\* C4: built without level_fmts, the formatter starts with the built-in
\* mapping exactly when the style is '%': NOTSET/DEBUG/INFO records
\* then render with the simple template (no file, line or function),
\* WARNING/ERROR/CRITICAL records with the qualified one (level name,
\* function, line, path); with another style the mapping starts empty and
\* every record renders with the default template.
C4_BuiltinMappingOnlyForPercent ==
    (laf.kind = "LevelAwareFormatter" /\ lafHist.level_fmts = NoneVal) =>
        /\ lafOp.op = "init" =>
               DOMAIN laf.formatters =
                   (IF lafHist.style = "%" THEN StandardLevels ELSE {})
        /\ \A r \in LogRecords :
               r.levelno \notin lafHist.touched =>
                   LET out == format(laf, r) IN
                   IF lafHist.style = "%" /\ r.levelno \in {NOTSET, DEBUG, INFO}
                   THEN /\ out = Returned(SimpleText(r))
                        /\ ~HasToken(out.text, r.funcName)
                        /\ ~HasToken(out.text, r.lineno)
                        /\ ~HasToken(out.text, r.pathname)
                   ELSE IF lafHist.style = "%" /\ r.levelno \in {WARNING, ERROR, CRITICAL}
                   THEN /\ out = Returned(QualifiedText(r))
                        /\ HasToken(out.text, r.levelname)
                        /\ HasToken(out.text, r.funcName)
                        /\ HasToken(out.text, r.lineno)
                        /\ HasToken(out.text, r.pathname)
                   ELSE out = FormatterFormat(
                                  Formatter(lafHist.default_fmt, lafHist.style,
                                            lafHist.defaults), r)

\* C4, reached: a WARNING record formatted by a formatter built with the
\* defaults, and the output names the file.
C4_FormattedWarningWithDefaults ==
    /\ laf.kind = "LevelAwareFormatter"
    /\ lafHist.level_fmts = NoneVal
    /\ lafHist.style = "%"
    /\ lafHist.default_fmt = SIMPLE_FMT
    /\ lafOp.op = "format"
    /\ lafOp.record.levelno = WARNING
    /\ WARNING \notin lafHist.touched
    /\ HasToken(lafOut.text, lafOp.record.pathname)

\* The verbosity the last to_str call rendered at.
ToStrTier == IF excOp.verbosity = NoneVal THEN ei.verbosity ELSE excOp.verbosity.v

\* An ExcInfo with known type, message, file, line, function and source text.
KnownContext ==
    /\ ei.exc # NoneVal
    /\ ei.exc.args # <<>>
    /\ ei.filename # ""
    /\ ei.linenum >= 0
    /\ ei.context # ""
    /\ ei.codeline # ""

\* The text names no file, line or function of the ExcInfo.
NoPositionText(text) ==
    /\ ~HasToken(text, ei.filename)
    /\ ~HasToken(text, ToString(ei.linenum))
    /\ ~HasToken(text, ei.context)

\* to_str(t) holds the whole text of to_str(t - 1) and is longer.
GrowsFromTierBelow(t) ==
    /\ Contains(excOut.text, to_str(ei, IntArg(t - 1)))
    /\ Len(excOut.text) > Len(to_str(ei, IntArg(t - 1)))

\* C7 as stated: with known type, message, file, line, function and source
\* text, to_str(t) holds the whole text of to_str(t-1) and is strictly
\* longer for every tier t in 1..4, and to_str(0) holds no file, line or
\* function text.
C7_EveryTierGrows ==
    (excOp.op = "to_str" /\ KnownContext) =>
        /\ ToStrTier \in 1..4 => GrowsFromTierBelow(ToStrTier)
        /\ ToStrTier = 0 => NoPositionText(excOut.text)

\* C7 amended: the same for every tier t in 2..4; to_str(1) does not
\* hold the text of to_str(0), which is the object's own representation.
C7_TiersAboveOneGrow ==
    (excOp.op = "to_str" /\ KnownContext) =>
        /\ ToStrTier \in 2..4 => GrowsFromTierBelow(ToStrTier)
        /\ ToStrTier = 1 => ~Contains(excOut.text, to_str(ei, IntArg(0)))
        /\ ToStrTier = 0 => NoPositionText(excOut.text)

\* C7, reached: to_str(3) of an ExcInfo with comment and known context.
C7_RenderedTierThree ==
    /\ excOp.op = "to_str"
    /\ KnownContext
    /\ excOp.verbosity = IntArg(3)
    /\ ei.comment # ""
    /\ HasToken(excOut.text, ei.codeline)

\* C8 as stated: to_str(0) is the debug representation of the held
\* exception, its type name and the repr of its args.
C8_TierZeroIsExceptionRepr ==
    (excOp.op = "to_str" /\ ToStrTier = 0) => excOut.text = ReprExc(ei.exc)

\* C8 amended: to_str(0) is the default representation of the ExcInfo
\* object itself, its class and identity, and so depends on no field of
\* the ExcInfo: not the exception, comment, location, source line or
\* traceback.
C8_TierZeroIsObjectRepr ==
    (excOp.op = "to_str" /\ ToStrTier = 0) =>
        excOut = Returned(<<"<logtools_vrb.logtools.ExcInfo object at ", ei.addr, ">">>)

\* C8, reached: to_str(0) of an ExcInfo holding an exception, a comment
\* and a traceback.
C8_RenderedTierZero ==
    /\ excOp.op = "to_str"
    /\ excOp.verbosity = IntArg(0)
    /\ ei.exc # NoneVal
    /\ ei.comment # ""
    /\ ei.tb # NoTb

\* C9: for an ExcInfo without traceback, to_str at tiers 2, 3 and 4 adds
\* nothing to the tier-1 text: no position, no source line, no trace.
C9_NoTracebackNoClauses ==
    (excOp.op = "to_str" /\ ei.tb = NoTb /\ ToStrTier \in 2..4) =>
        excOut.text = to_str(ei, IntArg(1))

\* C9, reached: to_str(4) of an ExcInfo built with no argument while no
\* exception was being handled.
C9_RenderedTierFourWithoutException ==
    /\ excOp.op = "to_str"
    /\ excOp.ctor.exc_info = NoneVal
    /\ handled = NoExcInfo
    /\ ei.tb = NoTb
    /\ excOp.verbosity = IntArg(4)

\* C10: format(ei, "") is to_str at the verbosity given at construction,
\* and format(ei, d) for a digit d in 0..4 is to_str(d) whatever that
\* verbosity is.
C10_FormatDigitsAndEmpty ==
    excOp.op = "format" =>
        /\ excOp.spec = <<>> =>
               excOut = Returned(to_str(ei, IntArg(excOp.ctor.verbosity)))
        /\ \A d \in 0..4 :
               excOp.spec = <<ToString(d)>> => excOut = Returned(to_str(ei, IntArg(d)))

\* C10, reached: format(ei, "") on an ExcInfo built with verbosity 3 and
\* a traceback.
C10_FormattedEmptySpec ==
    /\ excOp.op = "format"
    /\ excOp.spec = <<>>
    /\ excOp.ctor.verbosity = 3
    /\ ei.tb # NoTb
    /\ ei.codeline # ""
    /\ HasToken(excOut.text, ei.codeline)

\* C5: make_log_record puts the requested exception source into the
\* record's exception slot: (type, instance, traceback) of an exception
\* instance, an explicit triple as it is, the exception being handled for
\* True, nothing for False.
C5_RecordHoldsRequestedException ==
    recOp.op = "make_log_record" =>
        LET x == recOp.exc_info IN
        /\ x.kind = "exc" => recOut.exc_info = Tuple(3, x.type, x, x.tb)
        /\ (x.kind = "tuple" /\ x.len = 3) => recOut.exc_info = x
        /\ x = Bool(TRUE) => recOut.exc_info = recOp.ambient
        /\ x = Bool(FALSE) => recOut.exc_info = NoneVal

\* C5, reached: make_log_record called with an explicit triple while
\* another exception is being handled.
C5_CalledWithTriple ==
    /\ recOp.op = "make_log_record"
    /\ recOp.exc_info = TripleOf(ZeroDivision)
    /\ recOp.ambient = TripleOf(BadValue)

\* The file, line and function a record or caller record reports.
ReportedLocation(r) ==
    IF r.kind = "LogRecord" THEN Frame(r.pathname, r.lineno, r.funcName)
    ELSE Frame(r.filename, r.line_number, r.context_name)

\* C6: called from frame F with stacklevel k >= 1, make_log_record and
\* find_caller report the same file, line and function: that of the frame
\* k-1 levels above F, and never one inside LogUtils.
C6_ReportsCallersLocation ==
    (recOp.op \in {"make_log_record", "find_caller"}
     /\ recOp.stacklevel <= Len(recOp.stack)) =>
        LET k == recOp.stacklevel
            F == recOp.stack
        IN
        /\ ReportedLocation(recOut) = F[Len(F) - (k - 1)]
        /\ ReportedLocation(recOut).filename # LogUtilsFile
        /\ ReportedLocation(find_caller(host, F, FALSE, k)) =
               ReportedLocation(make_log_record(host, F, handled, NOTSET, "",
                                                "None", Bool(FALSE), NoneVal, FALSE, k))

\* C6 on a host of the sys._getframe(3) convention (Python up to 3.10),
\* where the code does what the claim says.
C6_HoldsWithGetframe3 == host = "getframe3" => C6_ReportsCallersLocation

\* C6, reached: make_log_record called two calls deep with stacklevel 2.
C6_CalledFromNestedFrame ==
    /\ recOp.op = "make_log_record"
    /\ recOp.stacklevel = 2
    /\ Len(recOp.stack) = 3

\* ---- C11 ----

\* What one token of a template stands for: the class name and str() of the
\* held exception for the placeholders, itself for plain text.
RenderedPlaceholder(self, tok) ==
    LET cls == IF self.exc = NoneVal THEN "NoneType" ELSE self.exc.type
        txt == IF self.exc = NoneVal THEN "None"
               ELSE IF self.exc.args = <<>> THEN "" ELSE self.exc.args[1]
    IN CASE tok = "{exc}" -> <<cls, "('", txt, "')">>
         [] tok = "{exc_type}" -> <<cls>>
         [] tok = "{exc_text}" -> <<txt>>
         [] OTHER -> <<tok>>

RECURSIVE RenderedTemplate(_, _)
RenderedTemplate(self, spec) ==
    IF spec = <<>> THEN <<>>
    ELSE RenderedPlaceholder(self, Head(spec)) \o RenderedTemplate(self, Tail(spec))

\* C11: format(ei, template) renders every {exc} as the class name followed
\* by the message in parentheses and single quotes, every {exc_type} as the
\* class name and every {exc_text} as the message, in any mix and order of
\* the three, and expands no substituted text a second time; ValueError("bad")
\* formatted with "{exc}" gives ValueError('bad').
C11_PlaceholdersRenderOnce ==
    (excOp.op = "format" /\ excOp.spec \in PlaceholderTemplates) =>
        /\ excOut = Returned(RenderedTemplate(ei, excOp.spec))
        /\ (excOp.spec = <<"{exc}">> /\ ei.exc # NoneVal
             /\ ei.exc.type = "ValueError" /\ ei.exc.args = <<"bad">>) =>
                excOut.text = <<"ValueError", "('", "bad", "')">>

\* A template with {exc_text} before {exc} and {exc_type} was formatted for
\* a ZeroDivisionError.
C11_FormattedMixedTemplate ==
    /\ excOp.op = "format"
    /\ excOp.spec = <<"{exc_text}", " / ", "{exc}", " / ", "{exc_type}">>
    /\ ei.exc # NoneVal
    /\ excOut.text = <<"division by zero", " / ", "ZeroDivisionError", "('",
                       "division by zero", "')", " / ", "ZeroDivisionError">>

\* ---- C12 ----

\* get_exc_info was called on a LogRecord.
CalledOnRecord ==
    /\ recOp.op = "get_exc_info"
    /\ recOp.arg # NoneVal
    /\ recOp.arg.kind = "LogRecord"

\* C12: get_exc_info(r) returns an ExcInfo whose exception and traceback are
\* those of r's exception-info slot, none when the slot is empty whatever
\* exception is being handled at the call, and whose comment is r's "comment"
\* attribute if r has one and "" otherwise.
C12_ExcInfoComesFromRecord ==
    CalledOnRecord =>
        LET r == recOp.arg IN
        /\ r.exc_info = NoneVal => (recOut.exc = NoneVal /\ recOut.tb = NoTb)
        /\ r.exc_info # NoneVal =>
               /\ recOut.exc = r.exc_info.val
               /\ recOut.tb = (IF r.exc_info.val = NoneVal THEN NoTb ELSE r.exc_info.tb)
        /\ recOut.comment = (IF r.extra # NoneVal /\ "comment" \in DOMAIN r.extra
                             THEN r.extra.comment ELSE "")

\* get_exc_info was called inside an except block on a record whose
\* exception-info slot is empty.
C12_CalledOnEmptySlotWhileHandling ==
    /\ CalledOnRecord
    /\ recOp.arg.exc_info = NoneVal
    /\ recOp.ambient # NoExcInfo

\* ---- C13 ----

\* The start of the subject for a record, and the ExcInfo that stands for
\* the record's msg and for its exception-info slot.
SubjectStart(lr) == PercentFormat(mlh.sub_start_fmt, lr)

MsgExcInfo(lr) ==
    IF lr.msg.kind = "exc" THEN ExcInfoInit(lr.msg, "", 1, "0x7f01", NoExcInfo)
    ELSE lr.msg.obj

SlotExcInfo(lr) == ExcInfoInit(lr.exc_info, "", 1, "0x7f01", NoExcInfo)

EndsWith(text, end) ==
    /\ Len(text) >= Len(end)
    /\ SubSeq(text, Len(text) - Len(end) + 1, Len(text)) = end

\* C13: emit picks subject and body by three cases in this priority: msg is
\* an exception or an ExcInfo, whatever the slot holds: start + "[EXC] " +
\* tier-1 summary, body the tier-4 rendering (a caught ZeroDivisionError
\* without comment ends the subject with
\* [EXC] ZeroDivisionError('division by zero')); else an empty slot: start +
\* message, body the formatter's output; else: the subject holds the message
\* and the tier-1 summary of the slot's exception, body is the tier-3
\* summary, a blank line and the formatter's output. That is what is mailed.
C13_SubjectAndBodyByCase ==
    mailOp.op = "emit" =>
        LET lr == mailOp.lr
            c == mailOp.content
        IN /\ lr.msg.kind \in {"exc", "ExcInfo"} =>
                  /\ c.subject = SubjectStart(lr) \o <<"[EXC] ">>
                                 \o to_str(MsgExcInfo(lr), IntArg(1))
                  /\ c.body = to_str(MsgExcInfo(lr), IntArg(4))
           /\ lr.msg = ZeroDivision =>
                  EndsWith(c.subject, <<"[EXC] ", "ZeroDivisionError", "(", "'",
                                        "division by zero", "'", ")">>)
           /\ (lr.msg.kind = "str" /\ lr.exc_info = NoneVal) =>
                  /\ c.subject = SubjectStart(lr) \o <<lr.msg.s>>
                  /\ c.body = HandlerFormat(lr)
           /\ (lr.msg.kind = "str" /\ lr.exc_info # NoneVal) =>
                  /\ Contains(c.subject, <<lr.msg.s>>)
                  /\ EndsWith(c.subject, to_str(SlotExcInfo(lr), IntArg(1)))
                  /\ c.body = to_str(SlotExcInfo(lr), IntArg(3)) \o <<"\n\n">>
                              \o HandlerFormat(lr)
           /\ mailOp.raised = "None" =>
                  outbox[Len(outbox)] = [subject |-> c.subject, to |-> mlh.mail_to,
                                         body |-> c.body]

\* A record whose msg is a caught ZeroDivisionError and whose slot holds
\* another exception was mailed.
C13_MailedExceptionMsgWithFilledSlot ==
    /\ mailOp.op = "emit"
    /\ mailOp.raised = "None"
    /\ mailOp.lr.msg = ZeroDivision
    /\ mailOp.lr.exc_info = TripleOf(BadValue)
    /\ Len(outbox) > 0
    /\ EndsWith(outbox[Len(outbox)].subject,
                <<": ", "[EXC] ", "ZeroDivisionError", "(", "'", "division by zero",
                  "'", ")">>)

\* ---- C15 ----

\* The names of the transport calls of the last emit, in order.
CallNames == [i \in 1..Len(mailOp.calls) |-> mailOp.calls[i].call]

CallFailed(name) ==
    \E i \in 1..Len(mailOp.calls) :
        mailOp.calls[i].call = name /\ ~mailOp.calls[i].ok

\* C15: every emit uses a transport of its own and calls it in the order
\* open, login, send, release, delivering exactly one message; when login or
\* send fails the transport is still released, nothing is delivered and the
\* failure leaves emit.
C15_TransportLifecycle ==
    mailOp.op = "emit" =>
        /\ \A i \in 1..Len(mailOp.calls) : mailOp.calls[i].transport = transports
        /\ mailOp.raised = "None" =>
               /\ CallNames = <<"open", "login", "send", "release">>
               /\ \A i \in 1..Len(mailOp.calls) : mailOp.calls[i].ok
               /\ Len(outbox) = mailOp.delivered + 1
        /\ CallFailed("login") =>
               /\ CallNames = <<"open", "login", "release">>
               /\ mailOp.raised # "None"
               /\ Len(outbox) = mailOp.delivered
        /\ CallFailed("send") =>
               /\ CallNames = <<"open", "login", "send", "release">>
               /\ mailOp.raised # "None"
               /\ Len(outbox) = mailOp.delivered
        /\ (\E i \in 1..Len(mailOp.calls) : ~mailOp.calls[i].ok) => mailOp.raised # "None"

\* After one record was mailed, the login of the next emit failed.
C15_LoginFailedOnSecondEmit ==
    /\ mailOp.op = "emit"
    /\ transports = 2
    /\ Len(outbox) = 1
    /\ CallFailed("login")
    /\ mailOp.raised = "MailError"

\* ---- C14 ----

\* The fields a template can name that are neither keys of self.__dict__
\* nor names __format__ substitutes.
UnknownKeys == UnknownFields \ Placeholders

NamesUnknownKey(spec) == \E k \in UnknownKeys : HasToken(spec, k)

\* The ExcInfo as its constructor left it.
AsConstructed ==
    ExcInfoInit(excOp.ctor.exc_info, excOp.ctor.comment, excOp.ctor.verbosity,
                ei.addr, handled)

\* C14: format(ei, template) with a template that names an unknown field
\* raises KeyError to the caller, returns no text, not even the part before
\* the field, and leaves every field of the ExcInfo as it was; a template
\* of known fields returns.
C14_UnknownFieldRaisesKeyError ==
    excOp.op = "format" =>
        /\ NamesUnknownKey(excOp.spec) =>
               /\ excOut.raised = "KeyError"
               /\ excOut.text = <<>>
        /\ ~NamesUnknownKey(excOp.spec) => excOut.raised = "None"
        /\ ei = AsConstructed

\* A template with known fields before the unknown one was formatted for an
\* ExcInfo that knows its file.
C14_FormattedUnknownFieldAfterKnown ==
    /\ excOp.op = "format"
    /\ Len(excOp.spec) > 1
    /\ HasToken(excOp.spec, "{filename}")
    /\ HasToken(excOp.spec, "{nokey}")
    /\ ei.filename # ""
    /\ excOut.raised = "KeyError"

\* ---- C16 ----

\* C16: however the ExcInfo was constructed, if its traceback is absent its
\* filename, context and source line are empty and its line number is -1,
\* and if it is present they are those of the first frame of the traceback
\* (the source line empty if the frame has none); the traceback of a triple
\* is kept only with an instance, and a shorter tuple has none.
C16_PositionFollowsTraceback ==
    /\ ei.tb = NoTb =>
           /\ ei.filename = ""
           /\ ei.context = ""
           /\ ei.codeline = ""
           /\ ei.linenum = -1
    /\ ei.tb # NoTb =>
           /\ ei.filename = Head(ei.tb).filename
           /\ ei.context = Head(ei.tb).name
           /\ ei.codeline = Head(ei.tb).line
           /\ ei.linenum = Head(ei.tb).lineno
    /\ LET src == excOp.ctor.exc_info IN
       /\ (src # NoneVal /\ src.kind = "tuple" /\ (src.len < 3 \/ src.val = NoneVal))
              => ei.tb = NoTb
       /\ (src # NoneVal /\ src.kind = "tuple" /\ src.len = 3 /\ src.val # NoneVal)
              => ei.tb = src.tb
       /\ (src # NoneVal /\ src.kind = "exc") => ei.tb = src.tb

\* An ExcInfo was built from a triple that has a traceback but no instance.
C16_BuiltFromTripleWithoutInstance ==
    /\ excOp.ctor.exc_info # NoneVal
    /\ excOp.ctor.exc_info.kind = "tuple"
    /\ excOp.ctor.exc_info.len = 3
    /\ excOp.ctor.exc_info.val = NoneVal
    /\ excOp.ctor.exc_info.tb = <<FrameA, FrameB>>
    /\ ei.tb = NoTb
    /\ ei.linenum = -1

\* ---- C17 ----

\* C17: to_str returns a text for every integer verbosity, and for a
\* verbosity above 4 exactly the text of to_str(4), with or without comment,
\* position, source line and traceback.
C17_TiersAboveFourEqualFour ==
    excOp.op = "to_str" =>
        /\ excOut.raised = "None"
        /\ ToStrTier > 4 => excOut.text = to_str(ei, IntArg(4))

\* to_str(5) was called on an ExcInfo with comment, source line and
\* traceback.
C17_RenderedTierFive ==
    /\ excOp.op = "to_str"
    /\ excOp.verbosity = IntArg(5)
    /\ ei.comment # ""
    /\ ei.codeline # ""
    /\ ei.tb # NoTb
    /\ HasToken(excOut.text, "Traceback (most recent call last):")

====
